---- MODULE Spec2Model ----
(***************************************************************************)
(* license-scout: dependency discovery (scan.rs), the persistent license   *)
(* cache (cache.rs), registry enrichment (metadata.rs) and the pipeline    *)
(* driver (main.rs).                                                       *)
(*                                                                         *)
(* Strings are sequences of one-character strings, so that trimming,       *)
(* searching, splitting and ASCII case folding are computed as the code    *)
(* computes them.  Option<T> is None / Some(v), Result<T> is Err / Ok(v).  *)
(***************************************************************************)
EXTENDS Integers, Sequences, FiniteSets, TLC

VARIABLES
    lastOp,         \* ghost: the name of the last operation performed
    \* ---- pip line parser harness (scan.rs, parse_requirement_line)
    pipPc,          \* "input" | "parsed" | "reparsed"
    line,           \* the requirement line under test
    parsed,         \* parse_requirement_line(line)
    reparsed,       \* parse_requirement_line(name==version)
    \* ---- LicenseCache (cache.rs)
    file,           \* the backing file: NoFile | Garbage | JsonFile(value)
    cache,          \* the LicenseCache value: None | Some([data, dirty])
    loadErr,        \* the last load returned Err
    got,            \* the last get's result: None | Some(Option<PackageMetadata>)
    trip,           \* ghost: progress of an insert; save; load; get round trip
    \* ---- the run (main.rs, metadata.rs::enrich_metadata)
    pc,             \* where main is
    todo,           \* the search paths not scanned yet
    fetch_licenses, \* cli.fetch_licenses
    records,        \* Vec<DependencyRecord>
    session_cache,  \* enrich_metadata's memo: (manager, name) -> Option<PackageMetadata>
    cur,            \* the record the enrichment loop is at
    step,           \* ghost: what the last loop iteration did
    fetches,        \* ghost: the live fetches issued, in order
    puts,           \* ghost: the number of cache.insert calls
    writes,         \* ghost: the number of times the cache file was written
    \* ---- two runs on one cache file (cache.rs)
    runs,           \* each run's position and its LicenseCache value
    fileLen,        \* the length in bytes of the cache file's content
    flushed,        \* ghost: the runs whose save wrote, in the order the writes ended
    overlap         \* ghost: a save began while another was under way

pipVars   == <<pipPc, line, parsed, reparsed>>
cacheVars == <<file, cache, loadErr, got, trip>>
mainVars  == <<pc, todo, fetch_licenses, records, session_cache, cur, step,
               fetches, puts, writes>>
raceVars  == <<runs, fileLen, flushed, overlap>>
vars      == <<lastOp, pipVars, cacheVars, mainVars, raceVars>>

(***************************************************************************)
(* Option, Result                                                          *)
(***************************************************************************)
None    == [some |-> FALSE]
Some(x) == [some |-> TRUE, v |-> x]
IsSome(o) == o.some
IsNone(o) == ~o.some

Ok(x) == [ok |-> TRUE, v |-> x]
Err   == [ok |-> FALSE]

\* Option::or_else
or_else(a, b) == IF a.some THEN a ELSE b

(***************************************************************************)
(* str operations of the Rust standard library, on character sequences     *)
(***************************************************************************)
WhiteSpace == {" ", "\t"}

UpperAscii == <<"A","B","C","D","E","F","G","H","I","J","K","L","M",
                "N","O","P","Q","R","S","T","U","V","W","X","Y","Z">>
LowerAscii == <<"a","b","c","d","e","f","g","h","i","j","k","l","m",
                "n","o","p","q","r","s","t","u","v","w","x","y","z">>

\* u8/char::to_ascii_lowercase: only 'A'..'Z' are mapped; every other
\* character, a non-ASCII capital included, is returned unchanged.
to_ascii_lowercase_char(c) ==
    IF \E i \in 1..26 : UpperAscii[i] = c
    THEN LowerAscii[CHOOSE i \in 1..26 : UpperAscii[i] = c]
    ELSE c

\* str::to_ascii_lowercase
to_ascii_lowercase(s) == [i \in 1..Len(s) |-> to_ascii_lowercase_char(s[i])]

\* str::eq_ignore_ascii_case
eq_ignore_ascii_case(a, b) == to_ascii_lowercase(a) = to_ascii_lowercase(b)

RECURSIVE trim_start(_)
trim_start(s) ==
    IF s # <<>> /\ Head(s) \in WhiteSpace THEN trim_start(Tail(s)) ELSE s

RECURSIVE trim_end(_)
trim_end(s) ==
    IF s # <<>> /\ s[Len(s)] \in WhiteSpace
    THEN trim_end(SubSeq(s, 1, Len(s) - 1))
    ELSE s

\* str::trim
trim(s) == trim_end(trim_start(s))

\* str::starts_with
starts_with(s, p) == Len(s) >= Len(p) /\ SubSeq(s, 1, Len(p)) = p

\* str::ends_with
ends_with(s, p) ==
    Len(s) >= Len(p) /\ SubSeq(s, Len(s) - Len(p) + 1, Len(s)) = p

\* The least element of a set of positions, 0 for the empty set.
FirstOf(hits) ==
    IF hits = {} THEN 0 ELSE CHOOSE i \in hits : \A j \in hits : i <= j

\* The greatest element of a set of positions, 0 for the empty set.
LastOf(hits) ==
    IF hits = {} THEN 0 ELSE CHOOSE i \in hits : \A j \in hits : j <= i

\* str::find: the 1-based position of the first occurrence of p, 0 for None.
find(s, p) ==
    FirstOf({i \in 1..(Len(s) - Len(p) + 1) : SubSeq(s, i, i + Len(p) - 1) = p})

\* str::contains
contains(s, p) == find(s, p) # 0

\* The text before position at (all of s when at is 0).
Before(s, at) == IF at = 0 THEN s ELSE SubSeq(s, 1, at - 1)

\* s.split(ch).next(): the text before the first ch (all of s without one).
split_next(s, ch) == Before(s, find(s, <<ch>>))

\* str::replace of one character by another
replace(s, from, to) == [i \in 1..Len(s) |-> IF s[i] = from THEN to ELSE s[i]]

\* str::trim_end_matches: every trailing repetition of p is removed.
RECURSIVE trim_end_matches(_, _)
trim_end_matches(s, p) ==
    IF p # <<>> /\ ends_with(s, p)
    THEN trim_end_matches(SubSeq(s, 1, Len(s) - Len(p)), p)
    ELSE s

\* str::strip_prefix(..).unwrap_or(s)
strip_prefix_or(s, p) ==
    IF starts_with(s, p) THEN SubSeq(s, Len(p) + 1, Len(s)) ELSE s

\* str::split(sep), collected
RECURSIVE split(_, _)
RECURSIVE SplitAt(_, _, _)
SplitAt(s, sep, at) ==
    IF at = 0
    THEN <<s>>
    ELSE <<SubSeq(s, 1, at - 1)>> \o split(SubSeq(s, at + Len(sep), Len(s)), sep)

split(s, sep) == SplitAt(s, sep, find(s, sep))

\* Iterator::filter(|s| !s.is_empty()), collected
RECURSIVE SeqFilterNonEmpty(_)
SeqFilterNonEmpty(xs) ==
    IF xs = <<>> THEN <<>>
    ELSE IF Head(xs) = <<>> THEN SeqFilterNonEmpty(Tail(xs))
    ELSE <<Head(xs)>> \o SeqFilterNonEmpty(Tail(xs))

\* [String]::join
RECURSIVE join(_, _)
join(xs, sep) ==
    IF xs = <<>> THEN <<>>
    ELSE IF Len(xs) = 1 THEN xs[1]
    ELSE xs[1] \o sep \o join(Tail(xs), sep)

(***************************************************************************)
(* Ordering of strings (str::cmp compares bytes)                           *)
(***************************************************************************)
\* The printable ASCII characters in code order, from ' ' (32) to '~' (126);
\* the entries for the backslash (92) and the backtick (96), which no string
\* here holds, are place holders.
Ascii ==
    <<" ","!","\"","#","$","%","&","'","(",")","*","+",",","-",".","/",
      "0","1","2","3","4","5","6","7","8","9",":",";","<","=",">","?",
      "@","A","B","C","D","E","F","G","H","I","J","K","L","M","N","O",
      "P","Q","R","S","T","U","V","W","X","Y","Z","[","BACKSLASH","]","^","_",
      "BACKTICK","a","b","c","d","e","f","g","h","i","j","k","l","m","n","o",
      "p","q","r","s","t","u","v","w","x","y","z","{","|","}","~">>

\* The rank of a character in byte order: a tab, the ASCII table, then the
\* two-byte characters.
CharRank(c) ==
    IF c = "\t" THEN 9
    ELSE IF \E i \in 1..Len(Ascii) : Ascii[i] = c
    THEN 31 + (CHOOSE i \in 1..Len(Ascii) : Ascii[i] = c)
    ELSE IF c = "É" THEN 201 ELSE 233

\* Ordering::Less for two strings
RECURSIVE str_lt(_, _)
str_lt(a, b) ==
    IF b = <<>> THEN FALSE
    ELSE IF a = <<>> THEN TRUE
    ELSE IF Head(a) = Head(b) THEN str_lt(Tail(a), Tail(b))
    ELSE CharRank(Head(a)) < CharRank(Head(b))

\* Option<String>::cmp: None sorts before every Some.
opt_lt(a, b) ==
    IF IsNone(b) THEN FALSE
    ELSE IF IsNone(a) THEN TRUE
    ELSE str_lt(a.v, b.v)

\* Path::cmp: component by component.
RECURSIVE path_lt(_, _)
path_lt(a, b) ==
    IF b = <<>> THEN FALSE
    ELSE IF a = <<>> THEN TRUE
    ELSE IF Head(a) = Head(b) THEN path_lt(Tail(a), Tail(b))
    ELSE str_lt(Head(a), Head(b))

\* The least string of a non-empty set.
MinKey(S) == CHOOSE x \in S : \A y \in S : y = x \/ str_lt(x, y)

\* The members of a serde_json Map in iteration order (a BTreeMap: by key).
RECURSIVE SortedKeys(_)
RECURSIVE KeysFrom(_, _)
KeysFrom(S, m) == <<m>> \o SortedKeys(S \ {m})

SortedKeys(S) == IF S = {} THEN <<>> ELSE KeysFrom(S, MinKey(S))

(***************************************************************************)
(* JSON values (serde_json::Value).  An object is a function from its     *)
(* member names to values.                                                 *)
(***************************************************************************)
JNull    == [t |-> "null"]
JNum(n)  == [t |-> "num", n |-> n]
JStr(x)  == [t |-> "str", s |-> x]
JArr(xs) == [t |-> "arr", a |-> xs]
JObj(f)  == [t |-> "obj", o |-> f]

\* Value::get(key) on an object: None when the value is no object or has
\* no such member.
JGet(val, key) ==
    IF val.t = "obj" /\ key \in DOMAIN val.o THEN Some(val.o[key]) ELSE None

\* Value::as_str
as_str(val) == IF val.t = "str" THEN Some(val.s) ELSE None

\* Option::and_then(|v| v.as_str())
and_then_as_str(o) == IF o.some THEN as_str(o.v) ELSE None

\* value.get(key).and_then(|v| v.as_str())
StrMember(value, key) == and_then_as_str(JGet(value, key))

(***************************************************************************)
(* types.rs                                                                *)
(***************************************************************************)
PackageMetadata(license, homepage) == [license |-> license, homepage |-> homepage]

DependencyRecord(manager, name, version, license, source, homepage) ==
    [manager |-> manager, name |-> name, version |-> version,
     license |-> license, source |-> source, homepage |-> homepage]

S_npm == <<"n","p","m">>
S_NPM == <<"N","P","M">>
S_pip == <<"p","i","p">>
S_MIT == <<"M","I","T">>
S_url == <<"h",":","/","/","x">>
S_Unknown == <<"U","n","k","n","o","w","n">>
S_unknown == <<"u","n","k","n","o","w","n">>
S_LeftPad == <<"L","e","f","t","-","P","a","d">>
S_leftpad == <<"l","e","f","t","-","p","a","d">>
S_Ecole   == <<"É","c","o","l","e">>
S_ecole   == <<"é","c","o","l","e">>

(***************************************************************************)
(* cache.rs                                                                *)
(***************************************************************************)
\* The backing file is absent, holds text that is no JSON, or holds a JSON
\* value.
NoFile  == [kind |-> "absent"]
Garbage == [kind |-> "text"]
JsonFile(val) == [kind |-> "json", json |-> val]

\* impl Default for CacheData
CacheDataDefault == [version |-> 1, entries |-> <<>>]

\* Serialize for Option<String>
OptionToJson(o) == IF IsSome(o) THEN JStr(o.v) ELSE JNull

\* Serialize for PackageMetadata
MetadataToJson(m) ==
    JObj([license |-> OptionToJson(m.license), homepage |-> OptionToJson(m.homepage)])

\* Serialize for CacheData (serde_json::to_string_pretty)
CacheDataToJson(data) ==
    JObj([version |-> JNum(data.version),
          entries |-> JObj([k \in DOMAIN data.entries |-> MetadataToJson(data.entries[k])])])

\* Deserialize for Option<String>: a missing member and null are None, a
\* string is Some, anything else is an error.
OptionFieldOk(val, key) ==
    key \in DOMAIN val.o => val.o[key].t \in {"null", "str"}

OptionFromJson(val, key) ==
    IF key \in DOMAIN val.o /\ val.o[key].t = "str" THEN Some(val.o[key].s) ELSE None

\* Deserialize for PackageMetadata
MetadataParses(e) ==
    e.t = "obj" /\ OptionFieldOk(e, "license") /\ OptionFieldOk(e, "homepage")

MetadataFromJson(e) ==
    PackageMetadata(OptionFromJson(e, "license"), OptionFromJson(e, "homepage"))

\* Deserialize for CacheData: version must fit u8, entries must be an object
\* of PackageMetadata objects.  No other condition is put on version.
CacheDataParses(val) ==
    /\ val.t = "obj"
    /\ "version" \in DOMAIN val.o
    /\ val.o["version"].t = "num"
    /\ val.o["version"].n \in 0..255
    /\ "entries" \in DOMAIN val.o
    /\ val.o["entries"].t = "obj"
    /\ \A k \in DOMAIN val.o["entries"].o : MetadataParses(val.o["entries"].o[k])

CacheDataFromJson(val) ==
    [version |-> val.o["version"].n,
     entries |-> [k \in DOMAIN val.o["entries"].o |->
                    MetadataFromJson(val.o["entries"].o[k])]]

\* LicenseCache::load: Err (None here) when the file exists and does not
\* parse, the default table when it is absent.
LoadResult(f) ==
    IF f.kind = "absent"
    THEN Some([data |-> CacheDataDefault, dirty |-> FALSE])
    ELSE IF f.kind = "json" /\ CacheDataParses(f.json)
    THEN Some([data |-> CacheDataFromJson(f.json), dirty |-> FALSE])
    ELSE None

\* cache_key with the name left in the case it was given.
cache_key_exact(manager, name) ==
    to_ascii_lowercase(manager) \o <<":", ":">> \o name

cache_key(manager, name) ==
    to_ascii_lowercase(manager) \o <<":", ":">> \o to_ascii_lowercase(name)

\* HashMap::get(..).cloned()
MapGet(m, k) == IF k \in DOMAIN m THEN Some(m[k]) ELSE None

\* LicenseCache::get
CacheGet(c, manager, name) == MapGet(c.data.entries, cache_key(manager, name))

\* HashMap::insert
MapInsert(m, k, val) == [x \in DOMAIN m \cup {k} |-> IF x = k THEN val ELSE m[x]]

\* LicenseCache::insert
CacheInsert(c, manager, name, metadata) ==
    [data  |-> [c.data EXCEPT !.entries = MapInsert(@, cache_key(manager, name), metadata)],
     dirty |-> TRUE]

\* save with the early return on a clean table left out.
WritesFileAlways(c) == TRUE

\* LicenseCache::save writes the file only when the table is dirty.
WritesFile(c) == c.dirty

\* LicenseCache::save: the file after the call.
SavedFile(c, f) == IF WritesFile(c) THEN JsonFile(CacheDataToJson(c.data)) ELSE f

(***************************************************************************)
(* Harness for the LicenseCache API: load, get, insert and save called in  *)
(* any order on one backing file.                                          *)
(***************************************************************************)
CacheManagers == {S_npm, S_NPM}
CacheNames    == {S_LeftPad, S_leftpad, S_Ecole, S_ecole}
CacheMetas    == {PackageMetadata(Some(S_MIT), None), PackageMetadata(None, Some(S_url))}

OneEntry(version) ==
    JObj([version |-> version,
          entries |-> JObj([k \in {cache_key(S_npm, S_leftpad)} |->
                              JObj([license |-> JStr(S_MIT), homepage |-> JNull])])])

\* The files a run may find: none, one that is no JSON, tables of version 1,
\* a table of another version, a version that does not fit u8, a version
\* that is no number, and an entry whose license is no string.
InitialFiles ==
    { NoFile,
      Garbage,
      JsonFile(CacheDataToJson(CacheDataDefault)),
      JsonFile(OneEntry(JNum(1))),
      JsonFile(OneEntry(JNum(2))),
      JsonFile(OneEntry(JNum(256))),
      JsonFile(OneEntry(JStr(<<"1">>))),
      JsonFile(JObj([version |-> JNum(1),
                     entries |-> JObj([k \in {cache_key(S_npm, S_leftpad)} |->
                                         JObj([license |-> JNum(7)])])])) }

MainIdle ==
    /\ pc = "idle" /\ todo = <<>> /\ fetch_licenses = FALSE /\ records = <<>>
    /\ session_cache = <<>> /\ cur = 0 /\ step = [kind |-> "none"]
    /\ fetches = <<>> /\ puts = 0 /\ writes = 0

PipIdle ==
    /\ pipPc = "idle" /\ line = <<>> /\ parsed = None /\ reparsed = None

RaceIdle ==
    /\ runs = <<>> /\ fileLen = 0 /\ flushed = <<>> /\ overlap = FALSE

CacheIdle ==
    /\ file = NoFile /\ cache = None /\ loadErr = FALSE /\ got = None
    /\ trip = [stage |-> 0]

InitCache ==
    /\ lastOp = "init"
    /\ file \in InitialFiles
    /\ cache = None
    /\ loadErr = FALSE
    /\ got = None
    /\ trip = [stage |-> 0]
    /\ PipIdle
    /\ MainIdle
    /\ RaceIdle

\* LicenseCache::load(): a fresh value replaces the one held.
Load ==
    /\ cache' = LoadResult(file)
    /\ loadErr' = IsNone(cache')
    /\ trip' = IF trip.stage = 2 /\ IsSome(cache')
               THEN [trip EXCEPT !.stage = 3]
               ELSE [stage |-> 0]
    /\ lastOp' = "load"
    /\ UNCHANGED raceVars
    /\ UNCHANGED <<file, got, pipVars, mainVars>>

Get(manager, name) ==
    /\ IsSome(cache)
    /\ got' = Some(CacheGet(cache.v, manager, name))
    /\ trip' = IF trip.stage \in {3, 4}
               THEN [stage |-> 4, manager |-> trip.manager, name |-> trip.name,
                     metadata |-> trip.metadata, qmanager |-> manager, qname |-> name]
               ELSE [stage |-> 0]
    /\ lastOp' = "get"
    /\ UNCHANGED raceVars
    /\ UNCHANGED <<file, cache, loadErr, pipVars, mainVars>>

Insert(manager, name, metadata) ==
    /\ IsSome(cache)
    /\ cache' = Some(CacheInsert(cache.v, manager, name, metadata))
    /\ trip' = [stage |-> 1, manager |-> manager, name |-> name, metadata |-> metadata]
    /\ lastOp' = "insert"
    /\ UNCHANGED raceVars
    /\ UNCHANGED <<file, loadErr, got, pipVars, mainVars>>

Save ==
    /\ IsSome(cache)
    /\ file' = SavedFile(cache.v, file)
    /\ cache' = Some([cache.v EXCEPT !.dirty = FALSE])
    /\ trip' = IF trip.stage = 1 THEN [trip EXCEPT !.stage = 2] ELSE [stage |-> 0]
    /\ lastOp' = "save"
    /\ UNCHANGED raceVars
    /\ UNCHANGED <<loadErr, got, pipVars, mainVars>>

NextCache ==
    \/ Load
    \/ \E m \in CacheManagers, n \in CacheNames : Get(m, n)
    \/ \E m \in CacheManagers, n \in CacheNames, md \in CacheMetas : Insert(m, n, md)
    \/ Save

SpecCache == InitCache /\ [][NextCache]_vars

(***************************************************************************)
(* scan.rs: the pip requirement line parser                                *)
(***************************************************************************)
\* The name once trimmed: None when empty, else the text before the first
\* '[' with '_' replaced by '-'.
NormalizeTrimmed(trimmed) ==
    IF trimmed = <<>>
    THEN None
    ELSE Some(replace(split_next(trimmed, "["), "_", "-"))

normalize_package_name(name) == NormalizeTrimmed(trim(name))

\* The comparator tokens, in the order the loop tries them.
markers == << <<"=","=","=">>, <<"=","=">>, <<">","=">>, <<"<","=">>,
              <<"~","=">>, <<"!","=">>, <<">">>, <<"<">>, <<"=">> >>

\* (!version.is_empty()).then(|| version.to_string())
NonEmpty(version) == IF version # <<>> THEN Some(version) ELSE None

\* Some((name?, version))
NameVersion(name, version) ==
    IF IsNone(name) THEN None ELSE Some([name |-> name.v, version |-> version])

\* The body of the marker loop once a marker was found at idx.
SplitAtMarker(requirement, marker, idx) ==
    NameVersion(normalize_package_name(trim(SubSeq(requirement, 1, idx - 1))),
                NonEmpty(trim(SubSeq(requirement, idx + Len(marker), Len(requirement)))))

\* The marker loop: the first marker of the list that occurs in the text
\* (k is its index, 0 when none occurs).
SplitRequirement(requirement, k) ==
    IF k # 0
    THEN SplitAtMarker(requirement, markers[k], find(requirement, markers[k]))
    ELSE NameVersion(normalize_package_name(requirement), None)

ParseRequirement(requirement) ==
    IF requirement = <<>>
    THEN None
    ELSE SplitRequirement(requirement,
             FirstOf({k \in 1..Len(markers) : find(requirement, markers[k]) # 0}))

ParseWithoutComment(without_comment) ==
    IF without_comment = <<>> \/ starts_with(without_comment, <<"-">>)
    THEN None
    ELSE ParseRequirement(trim(split_next(without_comment, ";")))

parse_requirement_line(l) == ParseWithoutComment(trim(split_next(l, "#")))

\* The string name==version derived from a parse result (the name alone
\* when no version was pinned).
Derived(r) ==
    IF IsSome(r.version) THEN r.name \o <<"=","=">> \o r.version.v ELSE r.name

(***************************************************************************)
(* scan.rs: manifests                                                      *)
(***************************************************************************)
\* Iterator::filter_map over Options, collected
RECURSIVE FilterMapSome(_)
FilterMapSome(os) ==
    IF os = <<>> THEN <<>>
    ELSE (IF Head(os).some THEN <<Head(os).v>> ELSE <<>>) \o FilterMapSome(Tail(os))

\* (!merged.is_empty()).then(|| merged.join(", "))
JoinMerged(merged) ==
    IF merged # <<>> THEN Some(join(merged, <<",", " ">>)) ELSE None

\* extract_license: a string as it is, an array's extracted elements joined
\* with ", ", an object's string member "type".
RECURSIVE extract_license(_)
extract_license(value) ==
    CASE value.t = "str" -> Some(value.s)
      [] value.t = "arr" ->
            JoinMerged(FilterMapSome([i \in 1..Len(value.a) |-> extract_license(value.a[i])]))
      [] value.t = "obj" -> StrMember(value, "type")
      [] OTHER -> None

\* Option::and_then(extract_license)
and_then_extract_license(o) == IF o.some THEN extract_license(o.v) ELSE None

\* info.get("license").and_then(extract_license)
LicenseMember(info) == and_then_extract_license(JGet(info, "license"))

\* Option::unwrap_or_else(|| "Unknown")
unwrap_or_unknown(o) == IF IsSome(o) THEN o.v ELSE S_Unknown

S_node_modules == <<"n","o","d","e","_","m","o","d","u","l","e","s">>

\* slice::rposition of "node_modules", 0 for None
rposition_node_modules(segments) ==
    LastOf({i \in 1..Len(segments) : segments[i] = S_node_modules})

\* The tail of package_name_from_path, on the segments kept.
NameFromSegments(segments) ==
    IF segments = <<>>
    THEN None
    ELSE IF starts_with(segments[1], <<"@">>) /\ Len(segments) >= 2
    THEN Some(segments[1] \o <<"/">> \o segments[2])
    ELSE Some(segments[1])

\* segments.split_off(pos + 1) when "node_modules" was found at pos
SplitOff(segments, pos) ==
    IF pos # 0 THEN SubSeq(segments, pos + 1, Len(segments)) ELSE segments

\* The segments after the last "node_modules" (all when there is none)
AfterNodeModules(segments) == SplitOff(segments, rposition_node_modules(segments))

package_name_from_path(path) ==
    IF path = <<>>
    THEN None
    ELSE NameFromSegments(AfterNodeModules(SeqFilterNonEmpty(split(path, <<"/">>))))

\* Some(DependencyRecord { .. }) once the name is known (the `?` on name)
LockRecord(name, version, license, source) ==
    IF IsNone(name)
    THEN None
    ELSE Some(DependencyRecord(S_npm, name.v, version, license, source, None))

build_package_lock_record(pkg_path, info, source, root_json) ==
    LockRecord(or_else(or_else(StrMember(info, "name"),
                               package_name_from_path(pkg_path)),
                       StrMember(root_json, "name")),
               StrMember(info, "version"),
               unwrap_or_unknown(LicenseMember(info)),
               source)

\* value.get(key).and_then(|v| v.as_object()), as a JSON object or JNull
ObjectMember(value, key) ==
    IF value.t = "obj" /\ key \in DOMAIN value.o /\ value.o[key].t = "obj"
    THEN value.o[key]
    ELSE JNull

\* collect_from_dependencies_map: each member in key order, followed by its
\* nested dependencies.
RECURSIVE collect_from_dependencies_map(_, _)
RECURSIVE CollectEach(_, _, _)
RECURSIVE CollectInner(_, _)
CollectInner(inner, source) ==
    IF inner.t = "obj" THEN collect_from_dependencies_map(inner, source) ELSE <<>>

CollectEach(map, names, source) ==
    IF names = <<>> THEN <<>>
    ELSE <<DependencyRecord(S_npm, Head(names),
                            StrMember(map.o[Head(names)], "version"),
                            unwrap_or_unknown(LicenseMember(map.o[Head(names)])),
                            source, None)>>
         \o CollectInner(ObjectMember(map.o[Head(names)], "dependencies"), source)
         \o CollectEach(map, Tail(names), source)

collect_from_dependencies_map(map, source) ==
    CollectEach(map, SortedKeys(DOMAIN map.o), source)

\* The content of a file: unreadable, lines of text, or text that is JSON
\* or is not.
Unreadable    == [kind |-> "unreadable"]
TextLines(ls) == [kind |-> "lines", lines |-> ls]
JsonText(val) == [kind |-> "json", json |-> val]
BadJson       == [kind |-> "badjson"]

\* packages.iter().filter_map(build_package_lock_record).collect()
PackagesRecords(packages, keys, path, json) ==
    FilterMapSome([i \in 1..Len(keys) |->
        build_package_lock_record(keys[i], packages.o[keys[i]], path, json)])

\* The branches of parse_package_lock on the parsed document.
LockRecords(json, packages, deps, path) ==
    IF packages.t = "obj"
    THEN PackagesRecords(packages, SortedKeys(DOMAIN packages.o), path, json)
    ELSE IF deps.t = "obj"
    THEN collect_from_dependencies_map(deps, path)
    ELSE <<>>

parse_package_lock(path, content) ==
    IF content.kind # "json"
    THEN Err
    ELSE Ok(LockRecords(content.json,
                        ObjectMember(content.json, "packages"),
                        ObjectMember(content.json, "dependencies"),
                        path))

\* The record pushed for one line, if any.
PipRecord(r, path) ==
    IF r.some
    THEN Some(DependencyRecord(S_pip, r.v.name, r.v.version, S_Unknown, path, None))
    ELSE None

parse_requirements(path, content) ==
    IF content.kind # "lines"
    THEN Err
    ELSE Ok(FilterMapSome([i \in 1..Len(content.lines) |->
                PipRecord(parse_requirement_line(content.lines[i]), path)]))

(***************************************************************************)
(* scan.rs: the directory walk                                             *)
(***************************************************************************)
DirNode(name, children) == [kind |-> "dir", name |-> name, children |-> children]
FileNode(name, content) == [kind |-> "file", name |-> name, content |-> content]
\* An entry the walk cannot read (WalkDir yields Err for it).
ErrNode == [kind |-> "err"]
\* A root path that does not exist.
MissingRoot == [kind |-> "missing"]

MaxDepth == 64

ExcludedNames ==
    { S_node_modules, <<".","g","i","t">>, <<"t","a","r","g","e","t">>, <<"_","_","p","y","c","a","c","h","e","_","_">>, <<"v","e","n","v">>, <<".","v","e","n","v">> }

\* The filter_entry closure with the name compared as it is spelled.
filter_entry_exact(depth, name) ==
    IF depth = 0
    THEN TRUE
    ELSE depth <= MaxDepth /\ name \notin ExcludedNames

\* The filter_entry closure: the root always passes; below it an entry
\* passes when it is no deeper than 64 and its lowercased name is not excluded.
filter_entry(depth, name) ==
    IF depth = 0
    THEN TRUE
    ELSE depth <= MaxDepth /\ to_ascii_lowercase(name) \notin ExcludedNames

\* The entry yielded for a file or a directory.
DirEntry(node, path) ==
    Ok([is_file |-> node.kind = "file",
        file_name |-> node.name,
        path |-> path,
        content |-> IF node.kind = "file" THEN node.content ELSE Unreadable])

\* WalkDir::new(root).into_iter().filter_entry(..): the items in the order
\* they are yielded; an entry the filter rejects is not yielded and, when a
\* directory, not descended into.
RECURSIVE Walk(_, _, _)
RECURSIVE WalkChildren(_, _, _)
RECURSIVE WalkInto(_, _, _)
WalkInto(node, depth, path) ==
    <<DirEntry(node, path)>>
    \o (IF node.kind = "dir" THEN WalkChildren(node.children, depth + 1, path) ELSE <<>>)

Walk(node, depth, parent) ==
    IF node.kind = "err"
    THEN <<Err>>
    ELSE IF ~filter_entry(depth, node.name)
    THEN <<>>
    ELSE WalkInto(node, depth, parent \o <<node.name>>)

WalkChildren(children, depth, parent) ==
    IF children = <<>>
    THEN <<>>
    ELSE Walk(Head(children), depth, parent) \o WalkChildren(Tail(children), depth, parent)

S_requirements_txt  == <<"r","e","q","u","i","r","e","m","e","n","t","s",".","t","x","t">>
S_package_lock_json == <<"p","a","c","k","a","g","e","-","l","o","c","k",".","j","s","o","n">>

\* The body of the loop with a walk error failing the scan.
CollectItemStrict(e) ==
    IF ~e.ok THEN Err
    ELSE IF ~e.v.is_file THEN Ok(<<>>)
    ELSE IF e.v.file_name = S_requirements_txt
    THEN parse_requirements(e.v.path, e.v.content)
    ELSE IF e.v.file_name = S_package_lock_json
    THEN parse_package_lock(e.v.path, e.v.content)
    ELSE Ok(<<>>)

\* The body of the loop over the walker for one item: a walk error and an
\* entry that is no manifest file add nothing; a manifest adds its records
\* or fails the scan.
CollectItem(e) ==
    IF ~e.ok THEN Ok(<<>>)
    ELSE IF ~e.v.is_file THEN Ok(<<>>)
    ELSE IF e.v.file_name = S_requirements_txt
    THEN parse_requirements(e.v.path, e.v.content)
    ELSE IF e.v.file_name = S_package_lock_json
    THEN parse_package_lock(e.v.path, e.v.content)
    ELSE Ok(<<>>)

\* collected.extend(..) followed by the rest of the loop
Extend(collected, rest) == IF rest.ok THEN Ok(collected \o rest.v) ELSE Err

RECURSIVE CollectItems(_)
RECURSIVE CollectAfter(_, _)
CollectAfter(here, items) ==
    IF ~here.ok THEN Err ELSE Extend(here.v, CollectItems(items))

CollectItems(items) ==
    IF items = <<>>
    THEN Ok(<<>>)
    ELSE CollectAfter(CollectItem(Head(items)), Tail(items))

\* collect_records: Err when the root does not exist or a manifest matched
\* by name fails to read or parse.
collect_records(root) ==
    IF root.kind = "missing"
    THEN Err
    ELSE CollectItems(Walk(root, 0, <<>>))

(***************************************************************************)
(* The directory trees given as search paths                               *)
(***************************************************************************)
S_flask == <<"f","l","a","s","k">>
S_Flask == <<"F","l","a","s","k">>
S_v1    == <<"1",".","0",".","0">>
S_v13   == <<"1",".","3",".","0">>
S_WTFPL == <<"W","T","F","P","L">>

\* A requirement at the top and a requirements.txt below node_modules.
RootFlask ==
    DirNode(<<"p","r","o","j">>, <<
        FileNode(S_requirements_txt, TextLines(<< <<"f","l","a","s","k","=","=","2",".","0",".","1">> >>)),
        DirNode(S_node_modules, <<
            DirNode(<<"s","o","m","e","p","k","g">>, <<
                FileNode(S_requirements_txt, TextLines(<< <<"h","i","d","d","e","n","=","=","1">> >>)) >>) >>) >>)

\* Two spellings of one package, an option line, a comment, an unreadable
\* entry and a file that is no manifest.
RootPy ==
    DirNode(<<"p","y">>, <<
        ErrNode,
        FileNode(<<"R","E","A","D","M","E",".","m","d">>, TextLines(<< <<"f","l","a","s","k">> >>)),
        DirNode(<<"s","u","b">>, <<
            FileNode(S_requirements_txt,
                     TextLines(<< <<"#"," ","d","e","p","s">>, <<"-","r"," ","b","a","s","e",".","t","x","t">>, <<"F","l","a","s","k">>, <<"f","l","a","s","k",">","=","1"," ",";"," ","x">> >>)) >>) >>)

\* A lockfile in the packages shape: an entry with no derivable name, one
\* package at two versions, with an empty license and an object license.
RootNpm ==
    DirNode(<<"w","e","b">>, <<
        FileNode(S_package_lock_json, JsonText(JObj([
            packages |-> JObj(
                (<<>> :> JObj([license |-> JStr(S_MIT)]))
                @@ (<<"n","o","d","e","_","m","o","d","u","l","e","s","/","l","e","f","t","-","p","a","d">> :>
                        JObj([version |-> JStr(S_v1), license |-> JStr(<<>>)]))
                @@ (<<"n","o","d","e","_","m","o","d","u","l","e","s","/","a","/","n","o","d","e","_","m","o","d","u","l","e","s","/","l","e","f","t","-","p","a","d">> :>
                        JObj([version |-> JStr(S_v13),
                              license |-> JObj([type |-> JStr(S_WTFPL)])])))]))) >>)

\* A lockfile in the dependencies shape with a nested dependency.
RootLegacy ==
    DirNode(<<"o","l","d">>, <<
        FileNode(S_package_lock_json, JsonText(JObj([
            dependencies |-> JObj(
                (S_leftpad :>
                    JObj([version |-> JStr(S_v13),
                          license |-> JArr(<<JStr(S_MIT), JNull, JStr(<<"A","p","a","c","h","e","-","2",".","0">>)>>),
                          dependencies |-> JObj(
                              (<<"p","a","d">> :> JObj([version |-> JStr(S_v1)])))])))]))) >>)

\* A lockfile that is no JSON.
RootBad ==
    DirNode(<<"b","a","d">>, << FileNode(S_package_lock_json, BadJson) >>)

\* Excluded directories in several spellings and depths, holding a lockfile
\* that is no JSON, a manifest that cannot be read and a well-formed one.
RootPruned ==
    DirNode(<<"m","o","n","o">>, <<
        DirNode(<<"V","E","N","V">>, << FileNode(S_package_lock_json, BadJson) >>),
        DirNode(<<".","G","i","t">>, << FileNode(S_requirements_txt, Unreadable) >>),
        FileNode(S_requirements_txt, TextLines(<< <<"f","l","a","s","k">> >>)),
        DirNode(<<"s","r","c">>, <<
            DirNode(<<"T","a","r","g","e","t">>, <<
                FileNode(S_requirements_txt, TextLines(<< <<"h","i","d","d","e","n">> >>)) >>) >>) >>)

Roots == {RootFlask, RootPy, RootNpm, RootLegacy, RootBad, RootPruned, MissingRoot}

(***************************************************************************)
(* metadata.rs: registry responses and their decoding                      *)
(***************************************************************************)
\* What client.get(url).send() gives: a transport failure (no connection, a
\* timeout), or a response with a status and a body.
TransportError == [kind |-> "transport"]
Http(status, body) == [kind |-> "http", status |-> status, body |-> body]
\* A body that response.json() cannot decode.
BadBody == [kind |-> "bad"]

\* StatusCode::is_success
is_success(status) == status \in 200..299

OkSome(m) == Ok(Some(m))
OkNone    == Ok(None)

\* A string that is not empty, else None
NonEmptyUrl(cleaned) == IF cleaned = <<>> THEN None ELSE Some(cleaned)

\* normalize_homepage: trimmed, then without trailing slashes; None when
\* either is empty (an empty trimmed text stays empty).
normalize_homepage(url) == NonEmptyUrl(trim_end_matches(trim(url), <<"/">>))

\* Option::and_then(normalize_homepage)
and_then_normalize_homepage(o) == IF o.some THEN normalize_homepage(o.v) ELSE None

NormalizeLicenseTrimmed(trimmed) ==
    IF trimmed = <<>> \/ eq_ignore_ascii_case(trimmed, S_unknown)
    THEN None
    ELSE Some(trimmed)

normalize_license_text(text) == NormalizeLicenseTrimmed(trim(text))

\* Option::and_then(normalize_license_text)
and_then_normalize_license_text(o) == IF o.some THEN normalize_license_text(o.v) ELSE None

S_License == <<"L","i","c","e","n","s","e"," ",":",":">>

\* classifier.split("::").last().map(|part| part.trim())
LastPart(parts) == trim(parts[Len(parts)])

\* The filter_map closure of license_from_classifiers
ClassifierValue(classifier) ==
    IF contains(classifier, S_License)
    THEN Some(LastPart(split(classifier, <<":", ":">>)))
    ELSE None

\* Iterator::find(|value| !value.is_empty())
RECURSIVE FindNonEmpty(_)
FindNonEmpty(values) ==
    IF values = <<>> THEN None
    ELSE IF Head(values) # <<>> THEN Some(Head(values))
    ELSE FindNonEmpty(Tail(values))

license_from_classifiers(classifiers) ==
    FindNonEmpty(FilterMapSome([i \in 1..Len(classifiers) |-> ClassifierValue(classifiers[i])]))

\* Option::and_then(license_from_classifiers)
and_then_license_from_classifiers(o) == IF o.some THEN license_from_classifiers(o.v) ELSE None

\* The project URL labels tried first, in this order.
HomepageKeys == <<"Homepage", "Home Page", "Source", "Repository", "Documentation">>

\* urls.get(key).and_then(normalize_homepage)
LabeledUrl(urls, key) ==
    IF key \in DOMAIN urls THEN normalize_homepage(urls[key]) ELSE None

\* The first loop of extract_pypi_homepage: the first label that gives a
\* homepage.
RECURSIVE FirstLabeled(_, _)
FirstLabeled(urls, keys) ==
    IF keys = <<>> THEN None
    ELSE or_else(LabeledUrl(urls, Head(keys)), FirstLabeled(urls, Tail(keys)))

\* The second loop: urls.values() is walked in the HashMap's iteration
\* order, which is unspecified, so any value that normalizes may be the one
\* returned.
AnyUrl(urls) == {normalize_homepage(urls[k]) : k \in DOMAIN urls} \ {None}

\* The choice between the results of the two loops and home_page.
PickHomepage(labeled, anyurl, home_page) ==
    IF labeled.some THEN {labeled}
    ELSE IF anyurl # {} THEN anyurl
    ELSE {and_then_normalize_homepage(home_page)}

\* extract_pypi_homepage: the possible results.
extract_pypi_homepage(info) ==
    IF info.project_urls.some
    THEN PickHomepage(FirstLabeled(info.project_urls.v, HomepageKeys),
                      AnyUrl(info.project_urls.v), info.home_page)
    ELSE {and_then_normalize_homepage(info.home_page)}

\* The license of a PyPI info block
PypiLicense(info) ==
    or_else(and_then_normalize_license_text(info.license),
            and_then_license_from_classifiers(info.classifiers))

\* if license.is_some() || homepage.is_some() { Ok(Some(..)) } else { Ok(None) }
MetadataIfAny(license, homepage) ==
    IF license.some \/ homepage.some
    THEN OkSome(PackageMetadata(license, homepage))
    ELSE OkNone

PypiResults(license, homepages) ==
    {MetadataIfAny(license, homepage) : homepage \in homepages}

\* fetch_pypi_metadata: the possible results for one response.
fetch_pypi_metadata(resp) ==
    IF resp.kind = "transport" THEN {Err}
    ELSE IF resp.status = 404 THEN {OkNone}
    ELSE IF ~is_success(resp.status) THEN {Err}
    ELSE IF resp.body = BadBody THEN {Err}
    ELSE PypiResults(PypiLicense(resp.body.info), extract_pypi_homepage(resp.body.info))

S_gitplus == <<"g","i","t","+">>
S_dotgit  == <<".","g","i","t">>

RepositoryFromTrimmed(trimmed) ==
    IF trimmed = <<>>
    THEN None
    ELSE normalize_homepage(
             trim_end_matches(strip_prefix_or(trimmed, S_gitplus), S_dotgit))

normalize_repository_url(url) == RepositoryFromTrimmed(trim(url))

\* Option::and_then(normalize_repository_url)
and_then_normalize_repository_url(o) == IF o.some THEN normalize_repository_url(o.v) ELSE None

extract_npm_repository_url(value) ==
    CASE value.t = "str" -> normalize_repository_url(value.s)
      [] value.t = "obj" -> and_then_normalize_repository_url(StrMember(value, "url"))
      [] OTHER -> None

\* Option::and_then(extract_npm_repository_url)
and_then_extract_npm_repository_url(o) == IF o.some THEN extract_npm_repository_url(o.v) ELSE None

extract_npm_homepage(value) ==
    or_else(and_then_normalize_homepage(StrMember(value, "homepage")),
            and_then_extract_npm_repository_url(JGet(value, "repository")))

\* The tail of lookup_npm_version_metadata
VersionMetadata(license, homepage) ==
    IF IsNone(license) /\ IsNone(homepage)
    THEN None
    ELSE Some(PackageMetadata(license, homepage))

\* json.get("versions").and_then(|versions| versions.get(version))
VersionEntry(versions, version) ==
    IF versions.some THEN JGet(versions.v, version) ELSE None

EntryMetadata(entry) ==
    IF IsNone(entry)
    THEN None
    ELSE VersionMetadata(LicenseMember(entry.v), extract_npm_homepage(entry.v))

lookup_npm_version_metadata(json, version) ==
    EntryMetadata(VersionEntry(JGet(json, "versions"), version))

\* Option::and_then(|ver| lookup_npm_version_metadata(data, ver))
LookupIfSome(data, version) ==
    IF version.some THEN lookup_npm_version_metadata(data, version.v) ELSE None

\* data.get("dist-tags").and_then(|tags| tags.get("latest")).and_then(as_str)
LatestTag(tags) == IF tags.some THEN StrMember(tags.v, "latest") ELSE None

\* The fall back to the version tagged latest
NpmLatest(tagged) == IF tagged.some THEN Ok(tagged) ELSE OkNone

\* The package-level members, then the version tagged latest
NpmPackageLevel(data, license, homepage) ==
    IF license.some \/ homepage.some
    THEN OkSome(PackageMetadata(license, homepage))
    ELSE NpmLatest(LookupIfSome(data, LatestTag(JGet(data, "dist-tags"))))

\* The pinned version's metadata, else the rest
NpmDecode(data, pinned) ==
    IF pinned.some
    THEN Ok(pinned)
    ELSE NpmPackageLevel(data, LicenseMember(data), extract_npm_homepage(data))

\* fetch_npm_metadata: the pinned version's metadata, else the package-level
\* members, else the metadata of the version tagged latest.
fetch_npm_metadata(resp, version) ==
    IF resp.kind = "transport" THEN Err
    ELSE IF resp.status = 404 THEN OkNone
    ELSE IF ~is_success(resp.status) THEN Err
    ELSE IF resp.body = BadBody THEN Err
    ELSE NpmDecode(resp.body, LookupIfSome(resp.body, version))

\* The match on record.manager: the possible results of the live fetch.
FetchResults(record, resp) ==
    IF record.manager = S_pip THEN fetch_pypi_metadata(resp)
    ELSE IF record.manager = S_npm THEN {fetch_npm_metadata(resp, record.version)}
    ELSE {OkNone}

(***************************************************************************)
(* metadata.rs: the merge into a record                                    *)
(***************************************************************************)
needs_metadata(record) ==
    \/ IsNone(record.homepage)
    \/ trim(record.license) = <<>>
    \/ eq_ignore_ascii_case(record.license, S_unknown)

\* should_update_license without the test on the current license.
should_update_license_always(current, candidate) == IsSome(candidate)

should_update_license(current, candidate) ==
    IsSome(candidate) /\ (trim(current) = <<>> \/ eq_ignore_ascii_case(current, S_unknown))

\* The second statement of apply_metadata
ApplyHomepage(record, meta) ==
    IF IsNone(record.homepage)
    THEN [record EXCEPT !.homepage = meta.homepage]
    ELSE record

\* The first statement of apply_metadata
ApplyLicense(record, meta) ==
    IF should_update_license(record.license, meta.license)
    THEN [record EXCEPT !.license = meta.license.v]
    ELSE record

apply_metadata(record, metadata) ==
    IF IsNone(metadata)
    THEN record
    ELSE ApplyHomepage(ApplyLicense(record, metadata.v), metadata.v)

\* The match on the fetch result with no negative entry memoized.
SessionAfterFetchFound(session, key, fetched) ==
    IF fetched.ok /\ fetched.v.some THEN MapInsert(session, key, fetched.v) ELSE session

\* The match on the fetch result with nothing memoized for a failure.
SessionAfterFetchOkOnly(session, key, fetched) ==
    IF fetched.ok THEN MapInsert(session, key, fetched.v) ELSE session

\* The session memo after the match on the fetch result: the metadata on
\* Ok(Some), a negative entry on Ok(None) and on Err.
SessionAfterFetch(session, key, fetched) ==
    MapInsert(session, key, IF fetched.ok THEN fetched.v ELSE None)

\* The match on the fetch result with every outcome written to the cache.
CacheAfterFetchAlways(c, record, fetched) ==
    CacheInsert(c, record.manager, record.name,
                IF fetched.ok /\ IsSome(fetched.v) THEN fetched.v.v
                ELSE PackageMetadata(None, None))

\* The persistent cache after the match on the fetch result: written on
\* Ok(Some) only.
CacheAfterFetch(c, record, fetched) ==
    IF fetched.ok /\ IsSome(fetched.v)
    THEN CacheInsert(c, record.manager, record.name, fetched.v.v)
    ELSE c

(***************************************************************************)
(* main.rs: sorting and searching                                          *)
(***************************************************************************)
\* The comparator of records.sort_by: manager, then name, then version,
\* then source.
record_lt(a, b) ==
    IF a.manager # b.manager THEN str_lt(a.manager, b.manager)
    ELSE IF a.name # b.name THEN str_lt(a.name, b.name)
    ELSE IF a.version # b.version THEN opt_lt(a.version, b.version)
    ELSE path_lt(a.source, b.source)

\* x put before position at of sorted (at the end when at is 0).
InsertAt(sorted, x, at) ==
    IF at = 0
    THEN Append(sorted, x)
    ELSE SubSeq(sorted, 1, at - 1) \o <<x>> \o SubSeq(sorted, at, Len(sorted))

\* x put after the elements that do not compare greater.
InsertSorted(sorted, x) ==
    InsertAt(sorted, x, FirstOf({i \in 1..Len(sorted) : record_lt(x, sorted[i])}))

\* slice::sort_by (stable)
RECURSIVE sort_by(_)
sort_by(xs) ==
    IF xs = <<>>
    THEN <<>>
    ELSE InsertSorted(sort_by(SubSeq(xs, 1, Len(xs) - 1)), xs[Len(xs)])

\* Option<&str>::unwrap_or("")
unwrap_or_empty(o) == IF o.some THEN o.v ELSE <<>>

\* record_matches_query: the needle occurs in the lowercased manager, name,
\* license, version, homepage or source.
record_matches_query(record, needle) ==
    \E value \in {record.manager, record.name, record.license,
                  unwrap_or_empty(record.version), unwrap_or_empty(record.homepage),
                  join(record.source, <<"/">>)} :
        contains(to_ascii_lowercase(value), needle)

\* Vec::retain(|record| record_matches_query(record, needle))
RECURSIVE retain(_, _)
retain(xs, needle) ==
    IF xs = <<>> THEN <<>>
    ELSE (IF record_matches_query(Head(xs), needle) THEN <<Head(xs)>> ELSE <<>>)
         \o retain(Tail(xs), needle)

(***************************************************************************)
(* The registry responses a fetch may meet                                 *)
(***************************************************************************)
PyPiInfo(license, classifiers, home_page, project_urls) ==
    [info |-> [license |-> license, classifiers |-> classifiers,
               home_page |-> home_page, project_urls |-> project_urls]]

PypiResponses ==
    { TransportError,
      Http(404, BadBody),
      Http(500, BadBody),
      Http(200, BadBody),
      Http(200, PyPiInfo(Some(S_MIT), None, Some(<<" ","h","t","t","p","s",":","/","/","x","/"," ">>), None)),
      Http(200, PyPiInfo(Some(<<" ","U","N","K","N","O","W","N">>),
                         Some(<< <<"P","r","o","g","r","a","m","m","i","n","g"," ","L","a","n","g","u","a","g","e"," ",":",":"," ","P","y","t","h","o","n">>,
                                 <<"L","i","c","e","n","s","e"," ",":",":"," ","O","S","I"," ","A","p","p","r","o","v","e","d"," ",":",":"," ","B","S","D"," ","L","i","c","e","n","s","e">> >>),
                         None, None)),
      Http(200, PyPiInfo(Some(<<>>), Some(<< <<"L","i","c","e","n","s","e"," ",":",":"," ">> >>), Some(<<"/","/">>), None)),
      Http(200, PyPiInfo(None, None, None,
                         Some(("Docs" :> <<"h","t","t","p","s",":","/","/","d","/">>) @@ ("Changelog" :> <<"h","t","t","p","s",":","/","/","x">>)))) }

NpmResponses ==
    { TransportError,
      Http(404, BadBody),
      Http(503, BadBody),
      Http(200, BadBody),
      Http(200, JObj(
          ("versions" :> JObj(
              (S_v1  :> JObj([license |-> JStr(<<"I","S","C">>)]))
              @@ (S_v13 :> JObj([license  |-> JObj([type |-> JStr(S_WTFPL)]),
                                 homepage |-> JStr(<<"h","t","t","p","s",":","/","/","x","/">>)]))))
          @@ ("dist-tags" :> JObj([latest |-> JStr(S_v13)])))),
      Http(200, JObj([license    |-> JStr(<<>>),
                      repository |-> JObj([url |-> JStr(<<"g","i","t","+","h","t","t","p","s",":","/","/","x",".","g","i","t">>)])])),
      Http(200, JObj([name |-> JStr(S_leftpad)])),
      Http(200, JObj([homepage |-> JStr(<<"h","t","t","p","s",":","/","/","x">>)])),
      Http(200, JObj([license |-> JStr(S_MIT)])) }

Responses(manager) == IF manager = S_pip THEN PypiResponses ELSE NpmResponses

\* The queries of --search: none, or a needle (already lowercased by main).
Queries == {None, Some(<<"m","i","t">>)}

(***************************************************************************)
(* The run: scan every search path, sort, and with --fetch-licenses load   *)
(* the cache, enrich and save; then filter and report.                     *)
(***************************************************************************)
MaxRoots == 2

SearchPaths == UNION {[1..k -> Roots] : k \in 1..MaxRoots}

\* The files the run may find at the cache path.
RunFiles ==
    { NoFile, Garbage,
      JsonFile(OneEntry(JNum(1))),
      JsonFile(OneEntry(JNum(2))) }

Init ==
    /\ lastOp = "init"
    /\ pc = "scan"
    /\ todo \in SearchPaths
    /\ fetch_licenses \in BOOLEAN
    /\ records = <<>>
    /\ session_cache = <<>>
    /\ cur = 0
    /\ step = [kind |-> "none"]
    /\ fetches = <<>>
    /\ puts = 0
    /\ writes = 0
    /\ file \in RunFiles
    /\ cache = None
    /\ loadErr = FALSE
    /\ got = None
    /\ trip = [stage |-> 0]
    /\ PipIdle
    /\ RaceIdle

\* acc.extend(collect_records(dir)?)
Scanned(found) ==
    IF found.ok
    THEN /\ records' = records \o found.v
         /\ todo' = Tail(todo)
         /\ pc' = IF Tail(todo) = <<>> THEN "sort" ELSE "scan"
    ELSE /\ pc' = "failed"
         /\ UNCHANGED <<records, todo>>

\* One turn of main's loop over search_paths
ScanRoot ==
    /\ pc = "scan"
    /\ todo # <<>>
    /\ Scanned(collect_records(Head(todo)))
    /\ lastOp' = "collect_records"
    /\ UNCHANGED raceVars
    /\ UNCHANGED <<fetch_licenses, session_cache, cur, step, fetches, puts, writes,
                   pipVars, cacheVars>>

\* records.sort_by(..), then the branch on cli.fetch_licenses
SortRecords ==
    /\ pc = "sort"
    /\ records' = sort_by(records)
    /\ pc' = IF fetch_licenses THEN "load" ELSE "report"
    /\ lastOp' = "sort_by"
    /\ UNCHANGED raceVars
    /\ UNCHANGED <<todo, fetch_licenses, session_cache, cur, step, fetches, puts, writes,
                   pipVars, cacheVars>>

\* let mut cache = LicenseCache::load()?
LoadCache ==
    /\ pc = "load"
    /\ cache' = LoadResult(file)
    /\ loadErr' = IsNone(cache')
    /\ pc' = IF IsSome(cache') THEN "begin" ELSE "failed"
    /\ lastOp' = "load"
    /\ UNCHANGED raceVars
    /\ UNCHANGED <<file, got, trip, todo, fetch_licenses, records, session_cache, cur,
                   step, fetches, puts, writes, pipVars>>

\* total_targets == 0 (records.is_empty() included)
NoTargets == \A i \in 1..Len(records) : ~needs_metadata(records[i])

\* enrich_metadata up to its loop: the early returns on no record and on no
\* record needing metadata, and the HTTP client, whose construction may fail.
EnrichBegin ==
    /\ pc = "begin"
    /\ \E built \in BOOLEAN :
          IF NoTargets
          THEN pc' = "save" /\ UNCHANGED <<session_cache, cur>>
          ELSE IF ~built
          THEN pc' = "failed" /\ UNCHANGED <<session_cache, cur>>
          ELSE pc' = "enrich" /\ session_cache' = <<>> /\ cur' = 1
    /\ lastOp' = "enrich_metadata"
    /\ UNCHANGED raceVars
    /\ UNCHANGED <<todo, fetch_licenses, records, step, fetches, puts, writes,
                   pipVars, cacheVars>>

\* if !needs_metadata(record) { continue; }
Skip ==
    /\ step' = [kind |-> "skip", idx |-> cur]
    /\ UNCHANGED <<records, session_cache, cache, fetches, puts>>

\* if let Some(cached) = session_cache.get(&key) { apply_metadata(..); continue; }
MemoHit(record, cached) ==
    /\ records' = [records EXCEPT ![cur] = apply_metadata(record, cached)]
    /\ step' = [kind |-> "memo", idx |-> cur, applied |-> cached]
    /\ UNCHANGED <<session_cache, cache, fetches, puts>>

\* A cache hit that leaves the session memo as it was
CacheHitUnmemoized(record, key, cached) ==
    /\ records' = [records EXCEPT ![cur] = apply_metadata(record, cached)]
    /\ step' = [kind |-> "cache", idx |-> cur, applied |-> cached]
    /\ UNCHANGED <<session_cache, cache, fetches, puts>>

\* if let Some(cached) = cache.get(..) { apply_metadata(..); session_cache.insert(..); continue; }
CacheHit(record, key, cached) ==
    /\ records' = [records EXCEPT ![cur] = apply_metadata(record, cached)]
    /\ session_cache' = MapInsert(session_cache, key, cached)
    /\ step' = [kind |-> "cache", idx |-> cur, applied |-> cached]
    /\ UNCHANGED <<cache, fetches, puts>>

\* The match on fetched: Ok(Some) is applied, put in the cache and
\* memoized; Ok(None) and Err are memoized as None.
Fetched(record, key, status, fetched) ==
    /\ records' = [records EXCEPT ![cur] =
                      IF fetched.ok /\ fetched.v.some
                      THEN apply_metadata(record, fetched.v)
                      ELSE record]
    /\ cache' = Some(CacheAfterFetch(cache.v, record, fetched))
    /\ session_cache' = SessionAfterFetch(session_cache, key, fetched)
    /\ step' = [kind |-> "fetch", idx |-> cur, fetched |-> fetched, status |-> status,
                applied |-> IF fetched.ok THEN fetched.v ELSE None]
    /\ fetches' = Append(fetches, [key |-> key, failed |-> ~fetched.ok])
    /\ puts' = IF cache' # cache THEN puts + 1 ELSE puts

\* response.status(), 0 when there is no response
StatusOf(resp) == IF resp.kind = "http" THEN resp.status ELSE 0

\* The live fetch: the registry answers in any of the ways it can.
Fetch(record, key) ==
    \E resp \in Responses(record.manager) :
        \E fetched \in FetchResults(record, resp) :
            Fetched(record, key, StatusOf(resp), fetched)

\* A cache entry without a homepage is fetched again.
CacheOrFetchRefreshing(record, key, cached) ==
    IF cached.some /\ cached.v.homepage.some
    THEN CacheHit(record, key, cached)
    ELSE Fetch(record, key)

\* The persistent cache is asked, then the registry.
CacheOrFetch(record, key, cached) ==
    IF cached.some THEN CacheHit(record, key, cached) ELSE Fetch(record, key)

\* A memo that serves a record only when the earlier records of its key pin
\* the version it pins
MemoOrCachePerVersion(record, key) ==
    IF /\ key \in DOMAIN session_cache
       /\ \A i \in 1..(cur - 1) :
             <<records[i].manager, records[i].name>> = key
                 => records[i].version = record.version
    THEN MemoHit(record, session_cache[key])
    ELSE CacheOrFetch(record, key, CacheGet(cache.v, record.manager, record.name))

\* The session memo is asked first.
MemoOrCache(record, key) ==
    IF key \in DOMAIN session_cache
    THEN MemoHit(record, session_cache[key])
    ELSE CacheOrFetch(record, key, CacheGet(cache.v, record.manager, record.name))

\* The body of the loop for one record
EnrichRecord(record) ==
    IF ~needs_metadata(record)
    THEN Skip
    ELSE MemoOrCache(record, <<record.manager, record.name>>)

\* One turn of enrich_metadata's loop over the records; after the last
\* record the function returns Ok.
EnrichStep ==
    /\ pc = "enrich"
    /\ cur <= Len(records)
    /\ EnrichRecord(records[cur])
    /\ cur' = cur + 1
    /\ pc' = IF cur = Len(records) THEN "save" ELSE "enrich"
    /\ lastOp' = "enrich_step"
    /\ UNCHANGED raceVars
    /\ UNCHANGED <<todo, fetch_licenses, writes, file, loadErr, got, trip, pipVars>>

\* cache.save()?
SaveCache ==
    /\ pc = "save"
    /\ file' = SavedFile(cache.v, file)
    /\ writes' = IF WritesFile(cache.v) THEN writes + 1 ELSE writes
    /\ cache' = Some([cache.v EXCEPT !.dirty = FALSE])
    /\ pc' = "report"
    /\ lastOp' = "save"
    /\ UNCHANGED raceVars
    /\ UNCHANGED <<loadErr, got, trip, todo, fetch_licenses, records, session_cache, cur,
                   step, fetches, puts, pipVars>>

\* The --search filter and the report; writing the report may fail.
Report ==
    /\ pc = "report"
    /\ \E query \in Queries, written \in BOOLEAN :
          /\ records' = IF IsSome(query) THEN retain(records, query.v) ELSE records
          /\ pc' = IF written THEN "done" ELSE "failed"
    /\ lastOp' = "report"
    /\ UNCHANGED raceVars
    /\ UNCHANGED <<todo, fetch_licenses, session_cache, cur, step, fetches, puts, writes,
                   pipVars, cacheVars>>

Next ==
    \/ ScanRoot
    \/ SortRecords
    \/ LoadCache
    \/ EnrichBegin
    \/ EnrichStep
    \/ SaveCache
    \/ Report

Spec == Init /\ [][Next]_vars

(***************************************************************************)
(* Harness for the line parser: a line is drawn, parsed, and the derived   *)
(* name==version string is parsed again.                                   *)
(***************************************************************************)
MaxLineLen == 4

PipAlphabet == {"a", "1", "_", "[", "=", "<", " ", "#", ";", "-"}

BoundedLines == UNION {[1..k -> PipAlphabet] : k \in 0..MaxLineLen}

\* Lines of the repository's tests and further examples.
ExampleLines ==
    { <<"r","e","q","u","e","s","t","s","=","=","2",".","3","2",".","0">>,
      <<"u","v","i","c","o","r","n","[","s","t","a","n","d","a","r","d","]",">","=","0",".","2","7">>,
      <<"#"," ","c","o","m","m","e","n","t"," ","l","i","n","e">>,
      <<"[","s","t","a","n","d","a","r","d","]",">","=","1">>,
      <<"m","y","_","p","k","g","~","=","1",".","0"," ",";"," ","x">>,
      <<"a","=","=","1",",","=","=","=","2">>,
      <<"a",">","=","1",",","<","2">>,
      <<"-","r"," ","b","a","s","e",".","t","x","t">> }

Lines == BoundedLines \cup ExampleLines

InitPip ==
    /\ lastOp = "init"
    /\ pipPc = "input"
    /\ line \in Lines
    /\ parsed = None
    /\ reparsed = None
    /\ CacheIdle
    /\ MainIdle
    /\ RaceIdle

ParseLine ==
    /\ pipPc = "input"
    /\ parsed' = parse_requirement_line(line)
    /\ pipPc' = "parsed"
    /\ lastOp' = "parse_requirement_line"
    /\ UNCHANGED raceVars
    /\ UNCHANGED <<line, reparsed, cacheVars, mainVars>>

Reparse ==
    /\ pipPc = "parsed"
    /\ IsSome(parsed)
    /\ reparsed' = parse_requirement_line(Derived(parsed.v))
    /\ pipPc' = "reparsed"
    /\ lastOp' = "parse_requirement_line"
    /\ UNCHANGED raceVars
    /\ UNCHANGED <<line, parsed, cacheVars, mainVars>>

NextPip == ParseLine \/ Reparse

SpecPip == InitPip /\ [][NextPip]_vars

(***************************************************************************)
(* Two runs on one cache file (cache.rs): each loads, puts and saves, with *)
(* no lock.  save serializes the table and calls fs::write, which opens    *)
(* the file truncating it and then writes the text from its start; the two *)
(* system calls of one run may be separated by those of the other.         *)
(***************************************************************************)
MaxPuts == 1

RaceNames == {S_leftpad, S_flask}

Procs == {1, 2}

\* The length of a JSON string or null
ReprLen(o) == IF o.some THEN Len(o.v) + 2 ELSE 4

\* The length of one entry in the text of serde_json::to_string_pretty:
\* the key line, the license line, the homepage line, the closing line.
EntryLen(key, m) ==
    (Len(key) + 10) + (19 + ReprLen(m.license)) + (19 + ReprLen(m.homepage)) + 6

RECURSIVE EntriesLen(_, _)
RECURSIVE EntriesLenFrom(_, _, _)
EntriesLenFrom(entries, keys, k) ==
    EntryLen(k, entries[k]) + EntriesLen(entries, keys \ {k})

EntriesLen(entries, keys) ==
    IF keys = {} THEN 0 ELSE EntriesLenFrom(entries, keys, CHOOSE k \in keys : TRUE)

\* The length of a version number in decimal
DigitsLen(n) == IF n < 10 THEN 1 ELSE IF n < 100 THEN 2 ELSE 3

\* The length in bytes of serde_json::to_string_pretty(&self.data), for
\* ASCII keys and values: an empty table is written "entries": {}, the
\* entries of another are separated by commas.
PrettyLen(data) ==
    IF DOMAIN data.entries = {}
    THEN 34 + DigitsLen(data.version)
    ELSE 37 + DigitsLen(data.version)
         + EntriesLen(data.entries, DOMAIN data.entries)
         + (Cardinality(DOMAIN data.entries) - 1)

\* The length of the file a run may find
FoundLen(f) == IF f.kind = "json" THEN PrettyLen(CacheDataFromJson(f.json)) ELSE 0

\* The content after a text of n bytes was written from the start of a file
\* of len bytes: the text when it covers the old content, else the text
\* followed by the rest of the old content, which is no JSON.
WrittenFile(json, n, len) == IF n >= len THEN JsonFile(json) ELSE Garbage

InitRace ==
    /\ lastOp = "init"
    /\ file \in {NoFile, JsonFile(OneEntry(JNum(1)))}
    /\ fileLen = FoundLen(file)
    /\ runs = [p \in Procs |-> [pc |-> "start", cache |-> None, nput |-> 0,
                                 loaded |-> {}, put |-> {}]]
    /\ flushed = <<>>
    /\ overlap = FALSE
    /\ cache = None /\ loadErr = FALSE /\ got = None /\ trip = [stage |-> 0]
    /\ PipIdle
    /\ MainIdle

\* The run after LicenseCache::load() returned r
RunLoaded(run, r) ==
    IF r.some
    THEN [run EXCEPT !.pc = "loaded", !.cache = r, !.loaded = DOMAIN r.v.data.entries]
    ELSE [run EXCEPT !.pc = "failed"]

\* LicenseCache::load()? in run p
RaceLoad(p) ==
    /\ runs[p].pc = "start"
    /\ runs' = [runs EXCEPT ![p] = RunLoaded(@, LoadResult(file))]
    /\ lastOp' = "load"
    /\ UNCHANGED <<file, fileLen, flushed, overlap, cache, loadErr, got, trip,
                   pipVars, mainVars>>

\* cache.insert("npm", name, metadata) in run p
RacePut(p, name, metadata) ==
    /\ runs[p].pc = "loaded"
    /\ runs[p].nput < MaxPuts
    /\ runs' = [runs EXCEPT ![p].cache = Some(CacheInsert(@.v, S_npm, name, metadata)),
                            ![p].put = @ \cup {cache_key(S_npm, name)},
                            ![p].nput = @ + 1]
    /\ lastOp' = "insert"
    /\ UNCHANGED <<file, fileLen, flushed, overlap, cache, loadErr, got, trip,
                   pipVars, mainVars>>

\* cache.save() in run p up to the opening of the file: a clean table
\* returns at once; else the text is made and File::create truncates the
\* file.
RaceSaveBegin(p) ==
    /\ runs[p].pc = "loaded"
    /\ IF WritesFile(runs[p].cache.v)
       THEN /\ runs' = [runs EXCEPT ![p].pc = "writing"]
            /\ file' = Garbage
            /\ fileLen' = 0
            /\ overlap' = (overlap \/ \E q \in Procs \ {p} : runs[q].pc = "writing")
       ELSE /\ runs' = [runs EXCEPT ![p].pc = "done"]
            /\ UNCHANGED <<file, fileLen, overlap>>
    /\ lastOp' = "save"
    /\ UNCHANGED <<flushed, cache, loadErr, got, trip, pipVars, mainVars>>

\* The rest of cache.save() in run p: write_all puts the text at the start
\* of the file, and dirty is reset.
RaceSaveWrite(p) ==
    /\ runs[p].pc = "writing"
    /\ file' = WrittenFile(CacheDataToJson(runs[p].cache.v.data),
                           PrettyLen(runs[p].cache.v.data), fileLen)
    /\ fileLen' = IF PrettyLen(runs[p].cache.v.data) >= fileLen
                  THEN PrettyLen(runs[p].cache.v.data) ELSE fileLen
    /\ runs' = [runs EXCEPT ![p].pc = "done", ![p].cache.v.dirty = FALSE]
    /\ flushed' = Append(flushed, p)
    /\ lastOp' = "save"
    /\ UNCHANGED <<overlap, cache, loadErr, got, trip, pipVars, mainVars>>

NextRace ==
    \/ \E p \in Procs : RaceLoad(p)
    \/ \E p \in Procs, n \in RaceNames, md \in CacheMetas : RacePut(p, n, md)
    \/ \E p \in Procs : RaceSaveBegin(p)
    \/ \E p \in Procs : RaceSaveWrite(p)

SpecRace == InitRace /\ [][NextRace]_vars

(***************************************************************************)
(* Properties of enrichment (metadata.rs) and of the run (main.rs)         *)
(***************************************************************************)
\* The session key of a record
RecordKey(record) == <<record.manager, record.name>>

\* The enrichment loop has acted and the records are those it works on.
InEnrichment == pc \in {"enrich", "save"} /\ step.kind # "none"

\* A license that is blank or, whatever the case of its letters, "unknown"
BlankOrUnknown(license) ==
    trim(license) = <<>> \/ eq_ignore_ascii_case(license, S_unknown)

\* C1: within one call of enrich_metadata at most one live fetch is issued
\* for every (manager, name) key, however many records share the key and
\* whatever the first fetch gave.
C1_AtMostOneFetchPerKey ==
    \A i, j \in DOMAIN fetches : i # j => fetches[i].key # fetches[j].key

\* C1 witness: a record is served from the session memo for a key that was
\* fetched (with no metadata found) for an earlier record.
C1_Witness ==
    /\ InEnrichment
    /\ step.kind = "memo"
    /\ \E i \in DOMAIN fetches :
          /\ fetches[i].key = RecordKey(records[step.idx])
          /\ ~fetches[i].failed
    /\ step.applied = None

\* C2: a step of enrichment changes a record's license only if the license
\* was blank or "unknown" and the metadata applied carries one, and changes
\* its homepage only if it was absent; nothing else of a record changes.
C2_NoDowngrade ==
    [][pc = "enrich" =>
         \A i \in 1..Len(records) :
            /\ records'[i].license # records[i].license =>
                  /\ i = cur
                  /\ BlankOrUnknown(records[i].license)
                  /\ step'.kind \in {"memo", "cache", "fetch"}
                  /\ step'.applied.some
                  /\ step'.applied.v.license = Some(records'[i].license)
            /\ records'[i].homepage # records[i].homepage =>
                  /\ i = cur
                  /\ records[i].homepage = None
                  /\ step'.kind \in {"memo", "cache", "fetch"}
                  /\ step'.applied.some
                  /\ step'.applied.v.homepage = records'[i].homepage
            /\ records'[i].manager = records[i].manager
            /\ records'[i].name = records[i].name
            /\ records'[i].version = records[i].version
            /\ records'[i].source = records[i].source]_vars

\* C2 witness: a fetch returned a homepage and no license for a record whose
\* license is known; the license stays and the homepage is taken.
C2_Witness ==
    /\ InEnrichment
    /\ step.kind = "fetch"
    /\ step.applied.some
    /\ step.applied.v.license = None
    /\ step.applied.v.homepage.some
    /\ ~BlankOrUnknown(records[step.idx].license)
    /\ records[step.idx].homepage = step.applied.v.homepage

\* C3: a step of enrichment writes to the persistent cache exactly when it
\* is a live fetch that returned metadata; the metadata then has a license
\* or a homepage, is the cache's entry for the record and the memo's entry
\* for the key, and no other entry changes.  Any other step leaves the
\* cache, its dirty flag included, as it was.
C3_PersistOnlyFetchedMetadata ==
    [][pc = "enrich" =>
         IF step'.kind = "fetch" /\ step'.fetched.ok /\ step'.fetched.v.some
         THEN /\ step'.fetched.v.v.license.some \/ step'.fetched.v.v.homepage.some
              /\ cache'.v.dirty
              /\ CacheGet(cache'.v, records[cur].manager, records[cur].name) = step'.fetched.v
              /\ session_cache'[RecordKey(records[cur])] = step'.fetched.v
              /\ puts' = puts + 1
              /\ \A k \in DOMAIN cache.v.data.entries :
                    k # cache_key(records[cur].manager, records[cur].name)
                        => /\ k \in DOMAIN cache'.v.data.entries
                           /\ cache'.v.data.entries[k] = cache.v.data.entries[k]
         ELSE cache' = cache /\ puts' = puts]_vars

\* C3 witness: a live fetch returned metadata and the cache, now dirty,
\* holds it for the record.
C3_Witness ==
    /\ InEnrichment
    /\ step.kind = "fetch"
    /\ step.fetched.ok /\ step.fetched.v.some
    /\ puts >= 1
    /\ cache.v.dirty
    /\ CacheGet(cache.v, records[step.idx].manager, records[step.idx].name) = step.fetched.v

\* C4: a failed live fetch leaves the records and the cache as they were
\* and the loop goes on to the next record; the loop never fails, it ends
\* with every record visited; and a key whose fetch failed is not fetched
\* again.
C4_FailedFetchIsSkipped ==
    /\ [][pc = "enrich" =>
            /\ cur' = cur + 1
            /\ pc' = IF cur = Len(records) THEN "save" ELSE "enrich"
            /\ (step'.kind = "fetch" /\ ~step'.fetched.ok)
                   => (records' = records /\ cache' = cache)]_vars
    /\ []((pc = "save" /\ step.kind # "none") => cur = Len(records) + 1)
    /\ [](\A i, j \in DOMAIN fetches :
             (i < j /\ fetches[i].failed) => fetches[j].key # fetches[i].key)

\* C4 witness: the registry answered 500 for a key, and a later record of
\* the same key is served the negative memo entry.
C4_Witness ==
    /\ InEnrichment
    /\ step.kind = "memo"
    /\ step.applied = None
    /\ \E i \in DOMAIN fetches :
          /\ fetches[i].key = RecordKey(records[step.idx])
          /\ fetches[i].failed

\* C6: the cache file changes only in the one save that follows a finished
\* enrichment, and only when a put happened since load; a save with no put
\* leaves the file untouched; a run that fails before the save has written
\* nothing.
C6_SingleFlushAfterEnrichment ==
    [][/\ (file' # file \/ writes' # writes) =>
             /\ fetch_licenses
             /\ pc = "save"
             /\ NoTargets \/ cur = Len(records) + 1
             /\ writes = 0 /\ writes' = 1
             /\ puts > 0
             /\ file' = JsonFile(CacheDataToJson(cache.v.data))
       /\ (pc = "save" /\ puts = 0) => file' = file
       /\ (pc' = "failed" /\ lastOp' # "report") => (writes' = 0 /\ file' = file)]_vars

\* C6 witness: enrichment put an entry and the one save wrote the table.
C6_Witness ==
    /\ pc = "report"
    /\ lastOp = "save"
    /\ writes = 1
    /\ puts > 0
    /\ file = JsonFile(CacheDataToJson(cache.v.data))

\* C8: in every state of the run every record's license is "Unknown" or a
\* string that is not blank.
C8_LicenseNeverBlank ==
    \A i \in 1..Len(records) :
        records[i].license = S_Unknown \/ trim(records[i].license) # <<>>

(***************************************************************************)
(* Properties of the scan (scan.rs)                                        *)
(***************************************************************************)
\* The directory names the scan leaves out
PrunedNames ==
    { <<"n","o","d","e","_","m","o","d","u","l","e","s">>, <<".","g","i","t">>, <<"t","a","r","g","e","t">>, <<"_","_","p","y","c","a","c","h","e","_","_">>, <<"v","e","n","v">>, <<".","v","e","n","v">> }

IsPrunedName(name) == \E x \in PrunedNames : eq_ignore_ascii_case(name, x)

\* The files of a tree that lie in no left-out directory below the root,
\* entries that cannot be read set aside.
RECURSIVE VisibleFiles(_, _)
VisibleFiles(node, top) ==
    IF node.kind = "err" THEN {}
    ELSE IF ~top /\ IsPrunedName(node.name) THEN {}
    ELSE IF node.kind = "file" THEN {node}
    ELSE UNION {VisibleFiles(node.children[i], FALSE) : i \in DOMAIN node.children}

\* A file matched by name as a manifest that cannot be read or parsed
BadManifest(f) ==
    \/ f.name = <<"r","e","q","u","i","r","e","m","e","n","t","s",".","t","x","t">> /\ f.content.kind # "lines"
    \/ f.name = <<"p","a","c","k","a","g","e","-","l","o","c","k",".","j","s","o","n">> /\ f.content.kind # "json"

HasBadManifest(root) == \E f \in VisibleFiles(root, TRUE) : BadManifest(f)

\* A tree without its entries that cannot be read
RECURSIVE WithoutErrors(_)
RECURSIVE ReadableChildren(_)
ReadableChildren(children) ==
    IF children = <<>> THEN <<>>
    ELSE IF Head(children).kind = "err" THEN ReadableChildren(Tail(children))
    ELSE <<WithoutErrors(Head(children))>> \o ReadableChildren(Tail(children))

WithoutErrors(node) ==
    IF node.kind # "dir" THEN node
    ELSE [node EXCEPT !.children = ReadableChildren(node.children)]

\* C11: no record has a source inside a directory below the root named,
\* in any letter case, node_modules, .git, target, __pycache__, venv or
\* .venv; a manifest inside one, malformed or not, gives neither a record
\* nor an error of the scan; and the root with flask==2.0.1 and
\* node_modules/somepkg/requirements.txt gives exactly one record.
C11_ExcludedDirectoriesArePruned ==
    /\ [](\A i \in 1..Len(records) :
            \A k \in 2..(Len(records[i].source) - 1) :
                ~IsPrunedName(records[i].source[k]))
    /\ [][pc = "scan" =>
            /\ (Head(todo).kind = "dir" /\ ~HasBadManifest(Head(todo)))
                    => pc' # "failed"
            /\ Head(todo) = RootFlask =>
                    records' = records \o
                        <<DependencyRecord(<<"p","i","p">>, <<"f","l","a","s","k">>, Some(<<"2",".","0",".","1">>), <<"U","n","k","n","o","w","n">>,
                                           <<<<"p","r","o","j">>, <<"r","e","q","u","i","r","e","m","e","n","t","s",".","t","x","t">>>>, None)>>]_vars

\* C11 witness: the tree with unreadable and malformed manifests inside
\* VENV, .Git and src/Target was scanned and gave its one record.
C11_Witness ==
    /\ lastOp = "collect_records"
    /\ pc # "failed"
    /\ todo = <<>>
    /\ records = <<DependencyRecord(<<"p","i","p">>, <<"f","l","a","s","k">>, None, <<"U","n","k","n","o","w","n">>,
                                    <<<<"m","o","n","o">>, <<"r","e","q","u","i","r","e","m","e","n","t","s",".","t","x","t">>>>, None)>>

\* C12: a scan passes over the entries that cannot be read and returns the
\* records of the others; a manifest that cannot be read or parsed fails the
\* scan of its root, and the run ends there: no record is added, and there
\* is no sort, no load of the cache, no enrichment and no report after it.
C12_ScanErrorAsymmetry ==
    /\ [][pc = "scan" /\ Head(todo).kind = "dir" =>
            IF HasBadManifest(Head(todo))
            THEN pc' = "failed" /\ records' = records
            ELSE /\ pc' # "failed"
                 /\ records' = records \o collect_records(WithoutErrors(Head(todo))).v]_vars
    /\ [][pc # "failed"]_vars
    /\ []((pc = "failed" /\ lastOp = "collect_records") =>
            /\ cache = None /\ ~loadErr
            /\ step.kind = "none" /\ fetches = <<>>
            /\ writes = 0)

\* C12 witness: the first root, with an entry that cannot be read, gave its
\* two records; the second, with a lockfile that is no JSON, ended the run.
C12_Witness ==
    /\ pc = "failed"
    /\ lastOp = "collect_records"
    /\ todo = <<RootBad>>
    /\ Len(records) = 2
    /\ \A i \in 1..2 : records[i].source = <<<<"p","y">>, <<"s","u","b">>, <<"r","e","q","u","i","r","e","m","e","n","t","s",".","t","x","t">>>>

(***************************************************************************)
(* Properties of the cache (cache.rs)                                      *)
(***************************************************************************)
\* str::to_lowercase on the characters used here: the ASCII capitals and
\* the non-ASCII capital of the name alphabet.
to_lowercase_char(c) == IF c = "É" THEN "é" ELSE to_ascii_lowercase_char(c)

EqualUpToLetterCase(a, b) ==
    /\ Len(a) = Len(b)
    /\ \A i \in 1..Len(a) : to_lowercase_char(a[i]) = to_lowercase_char(b[i])

\* C5 as stated: after insert(manager, name, metadata), save and a fresh
\* load, get(manager', name') returns the inserted metadata for every
\* manager' and name' equal to manager and name up to letter case.
C5_RoundTripAnyLetterCase ==
    (/\ trip.stage = 4
     /\ EqualUpToLetterCase(trip.manager, trip.qmanager)
     /\ EqualUpToLetterCase(trip.name, trip.qname))
    => got = Some(Some(trip.metadata))

\* C5 amended: after insert(manager, name, metadata), save and a fresh load,
\* get(manager', name') returns the inserted metadata for every manager' and
\* name' equal to manager and name up to the case of ASCII letters.
C5_RoundTripAsciiCase ==
    (/\ trip.stage = 4
     /\ eq_ignore_ascii_case(trip.manager, trip.qmanager)
     /\ eq_ignore_ascii_case(trip.name, trip.qname))
    => got = Some(Some(trip.metadata))

\* C5 witness: ("npm", "Left-Pad") inserted, saved, loaded afresh and found
\* under ("NPM", "left-pad").
C5_Witness ==
    /\ trip.stage = 4
    /\ trip.manager = S_npm /\ trip.name = S_LeftPad
    /\ trip.qmanager = S_NPM /\ trip.qname = S_leftpad
    /\ got = Some(Some(trip.metadata))

\* C7: a load of a file that exists and parses but whose version tag is not
\* 1 returns an error and yields no table.
C7_LoadFailsClosedOnVersion ==
    (/\ lastOp = "load"
     /\ file.kind = "json"
     /\ CacheDataParses(file.json)
     /\ file.json.o["version"].n # 1)
    => (loadErr /\ cache = None)

\* The record the loop of enrich_metadata is at needs metadata.
NeedsNow == pc = "enrich" /\ cur <= Len(records) /\ needs_metadata(records[cur])

\* What the persistent cache holds for the record the loop is at
CurCached == CacheGet(cache.v, records[cur].manager, records[cur].name)

\* The session memo holds the key of the record the loop is at.
CurMemoized == RecordKey(records[cur]) \in DOMAIN session_cache

\* C14: for a record that needs metadata the layers are asked in a fixed
\* order.  If the session memo holds the key, a negative entry included,
\* the memoized value is applied and neither the memo, the persistent cache
\* nor the list of fetches changes.  Otherwise, if the persistent cache
\* holds the key, its metadata is applied and put in the session memo, and
\* there is no fetch.  A fetch is issued, for that key, exactly when both
\* layers miss.
C14_LayersInOrder ==
    [][NeedsNow =>
        /\ CurMemoized =>
              /\ records' = [records EXCEPT ![cur] =
                                apply_metadata(@, session_cache[RecordKey(records[cur])])]
              /\ UNCHANGED <<session_cache, cache, fetches>>
        /\ (~CurMemoized /\ CurCached.some) =>
              /\ records' = [records EXCEPT ![cur] = apply_metadata(@, CurCached)]
              /\ session_cache' = MapInsert(session_cache, RecordKey(records[cur]), CurCached)
              /\ UNCHANGED <<cache, fetches>>
        /\ (~CurMemoized /\ ~CurCached.some) =>
              /\ Len(fetches') = Len(fetches) + 1
              /\ fetches'[Len(fetches')].key = RecordKey(records[cur])
              /\ RecordKey(records[cur]) \in DOMAIN session_cache'
    ]_vars

\* A run in which the three layers have all answered: a record was resolved
\* by a negative memo entry, after a fetch and after a hit in the persistent
\* cache that put a key in the memo without a fetch.
C14_Witness ==
    /\ InEnrichment
    /\ step.kind = "memo"
    /\ step.applied = None
    /\ fetches # <<>>
    /\ \E k \in DOMAIN session_cache :
          /\ session_cache[k].some
          /\ \A i \in DOMAIN fetches : fetches[i].key # k

\* The entries of the persistent cache when the run loaded it; the file is
\* not written before save.
StartEntries ==
    IF LoadResult(file).some THEN LoadResult(file).v.data.entries ELSE <<>>

\* C15: a key the persistent cache holds when the run starts is never
\* fetched in that run, and its entry stays as it was, in the table during
\* enrichment and in the file that save leaves, also when the cached metadata
\* has no homepage or no license and the record still needs metadata after
\* the cached value was applied.
C15_CachedKeysAreNotRefreshed ==
    /\ [](pc \in {"enrich", "save"} =>
            \A k \in DOMAIN StartEntries :
                /\ \A i \in DOMAIN fetches :
                      cache_key(fetches[i].key[1], fetches[i].key[2]) # k
                /\ k \in DOMAIN cache.v.data.entries
                /\ cache.v.data.entries[k] = StartEntries[k])
    /\ [][pc = "save" =>
            \A k \in DOMAIN StartEntries :
                /\ LoadResult(file').some
                /\ k \in DOMAIN LoadResult(file').v.data.entries
                /\ LoadResult(file').v.data.entries[k] = StartEntries[k]]_vars

\* A record resolved from an entry that was in the file at the start still
\* needs metadata at the end of the loop, in a run that fetched for other
\* keys and put their metadata in the table.
C15_Witness ==
    /\ pc = "save"
    /\ step.kind # "none"
    /\ fetches # <<>>
    /\ puts > 0
    /\ \E i \in DOMAIN records :
          /\ needs_metadata(records[i])
          /\ cache_key(records[i].manager, records[i].name) \in DOMAIN StartEntries
          /\ ~StartEntries[cache_key(records[i].manager, records[i].name)].homepage.some
          /\ records[i].license =
                StartEntries[cache_key(records[i].manager, records[i].name)].license.v

\* A live fetch was issued for the key of the record the loop is at.
CurFetched == \E i \in DOMAIN fetches : fetches[i].key = RecordKey(records[cur])

\* C16: the session memo ignores the pinned version.  The record of an npm
\* name for which the registry is asked is the first one in sorted order
\* that needs metadata, the lookup is made with the version that record
\* pins, and what it finds is stored under the name in the persistent cache
\* and in the memo; every later record of the name that needs metadata,
\* whatever version it pins, gets that same value from the memo with no
\* further fetch, and the stored entry stays.
C16_MemoIgnoresVersion ==
    /\ [][(NeedsNow /\ records[cur].manager = S_npm) =>
            IF CurFetched
            THEN /\ step'.kind = "memo"
                 /\ step'.applied = session_cache[RecordKey(records[cur])]
                 /\ records' = [records EXCEPT ![cur] =
                                   apply_metadata(@, session_cache[RecordKey(records[cur])])]
                 /\ UNCHANGED <<session_cache, cache, fetches>>
            ELSE step'.kind = "fetch" =>
                 /\ \A i \in 1..(cur - 1) :
                       RecordKey(records[i]) = RecordKey(records[cur])
                           => ~needs_metadata(records[i])
                 /\ \E resp \in NpmResponses :
                       /\ step'.status = StatusOf(resp)
                       /\ step'.fetched = fetch_npm_metadata(resp, records[cur].version)
                 /\ RecordKey(records[cur]) \in DOMAIN session_cache'
                 /\ session_cache'[RecordKey(records[cur])] = step'.applied
                 /\ step'.applied.some =>
                       CacheGet(cache'.v, S_npm, records[cur].name) = step'.applied
       ]_vars
    /\ [](InEnrichment =>
            \A i \in DOMAIN fetches :
                (fetches[i].key[1] = S_npm /\ session_cache[fetches[i].key].some)
                    => CacheGet(cache.v, S_npm, fetches[i].key[2])
                           = session_cache[fetches[i].key])

\* A record pinning 1.3.0 was served from the memo the metadata looked up
\* for an earlier record of its name pinning 1.0.0, and that metadata is
\* what the persistent cache holds under the name.
C16_Witness ==
    /\ InEnrichment
    /\ step.kind = "memo"
    /\ records[step.idx].manager = S_npm
    /\ records[step.idx].version = Some(S_v13)
    /\ \E i \in 1..(step.idx - 1) :
          /\ RecordKey(records[i]) = RecordKey(records[step.idx])
          /\ records[i].version = Some(S_v1)
    /\ \E i \in DOMAIN fetches : fetches[i].key = RecordKey(records[step.idx])
    /\ step.applied = Some(PackageMetadata(Some(<<"I","S","C">>), None))
    /\ CacheGet(cache.v, S_npm, records[step.idx].name) = step.applied

\* Both runs have saved, each with a put of its own.
BothFlushed == Len(flushed) = 2 /\ \A p \in Procs : runs[p].pc = "done"

\* The keys of the table in the cache file (none when it holds no table)
FileKeys ==
    IF file.kind = "json" /\ CacheDataParses(file.json)
    THEN DOMAIN file.json.o["entries"].o
    ELSE {}

\* The file holds the table of the run whose save ended last, and no entry
\* that only the other run put.
LastWriterWon ==
    /\ file = JsonFile(CacheDataToJson(runs[flushed[2]].cache.v.data))
    /\ \A k \in runs[flushed[1]].put :
          (k \notin runs[flushed[2]].loaded /\ k \notin runs[flushed[2]].put)
              => k \notin FileKeys

\* C13: when two runs load, put and save on one cache file with no lock,
\* after both have saved the file holds exactly the table of the run that
\* saved last; an entry only the other run put, absent when the last run
\* loaded, is not in it.
C13_LastWriterWins == BothFlushed => LastWriterWon

\* The same statement for two runs of which neither began its save while
\* the other's was under way.
C13_LastWriterWinsWithoutOverlap == (BothFlushed /\ ~overlap) => LastWriterWon

\* Two saves that did not overlap, the second dropping the first's entry.
C13_WithoutOverlapWitness ==
    /\ BothFlushed /\ ~overlap
    /\ runs[flushed[1]].put # runs[flushed[2]].put
    /\ runs[flushed[1]].put \cap FileKeys = {}

(***************************************************************************)
(* Properties of the pip line parser (scan.rs)                             *)
(***************************************************************************)
\* C9: for every line that parse_requirement_line accepts with (name,
\* version), parsing the derived string name==version yields the same pair.
C9_ParseIdempotent ==
    pipPc = "reparsed" => reparsed = parsed

\* The same statement on the accepted lines whose name is not empty and
\* holds no blank (those on which the empty-name case of C10 plays no part).
C9_ParseIdempotentOnPlainNames ==
    (/\ pipPc = "reparsed"
     /\ parsed.v.name # <<>>
     /\ \A i \in 1..Len(parsed.v.name) : parsed.v.name[i] \notin WhiteSpace)
    => reparsed = parsed

\* The requirement of a line: the text before '#', then before ';'
RequirementText(l) == trim(split_next(trim(split_next(l, "#")), ";"))

\* The text before the k-th comparator token (the whole text when k is 0)
TextBefore(requirement, k) ==
    IF k = 0
    THEN requirement
    ELSE trim(SubSeq(requirement, 1, find(requirement, markers[k]) - 1))

\* The text before the chosen comparator token (the whole requirement when
\* there is none), cut at the first '[' and with '_' replaced by '-'.
NameOfRequirement(requirement) ==
    replace(split_next(
                TextBefore(requirement,
                    FirstOf({k \in 1..Len(markers) : find(requirement, markers[k]) # 0})),
                "["), "_", "-")

NameText(l) == NameOfRequirement(RequirementText(l))

NoRecordLine(l) ==
    \/ trim(split_next(l, "#")) = <<>>
    \/ starts_with(trim(split_next(l, "#")), <<"-">>)
    \/ NameText(l) = <<>>

\* C10: a record is produced only with a non-empty name, the text before the
\* chosen comparator token cut at '[' with '_' replaced by '-'; blank lines,
\* comment-only lines, lines starting with '-' and lines whose normalized
\* name is empty yield no record.
C10_PipRecordName ==
    pipPc # "input" =>
        /\ IsSome(parsed) => (parsed.v.name # <<>> /\ parsed.v.name = NameText(line))
        /\ NoRecordLine(line) => IsNone(parsed)

====
